---- MODULE Spec2Model ----
(***************************************************************************)
(* A model of the ts-utils value algebra: the Nominal tag primitive        *)
(* (src/Nominal.ts), the Result algebra built on it (src/Result.ts) and    *)
(* the Option algebra in its symbol-keyed and absence-sentinel encodings   *)
(* (src/unnamed/part_001) and its cast-based encoding                      *)
(* (src/unnamed/part_000).                                                 *)
(*                                                                         *)
(* JavaScript values are records tagged by "t".  Every library function is *)
(* an operator returning a completion: how the call ended ("return" or     *)
(* "throw"), the value returned or thrown, and the callback invocations it *)
(* made, in order.  The state is the last two library calls of a client,   *)
(* and the Result.bind calls of the chain it is writing: each action is    *)
(* one library call whose option/result argument is either drawn from a    *)
(* small set or is the value the previous call returned.                   *)
(***************************************************************************)
EXTENDS Integers, Sequences, FiniteSets, TLC

VARIABLES cur, prev, chain

vars == <<cur, prev, chain>>

(* Bounds of the model. *)
\* numbers 0..MaxNum are the numeric payloads
MaxNum == 1
\* deepest nesting of Option/Result/Nominal wrappers a client builds
MaxDepth == 2
\* longest chain of Result.bind calls a client writes
MaxChain == 3

(***************************************************************************)
(* JavaScript values                                                       *)
(***************************************************************************)
Undefined == [t |-> "undefined"]
Null == [t |-> "null"]
Num(n) == [t |-> "number", n |-> n]
Str(s) == [t |-> "string", s |-> s]
Bool(b) == [t |-> "boolean", b |-> b]
Sym(s) == [t |-> "symbol", s |-> s]
Arr(items) == [t |-> "array", items |-> items]
\* An object: its own properties, keyed by symbol.  "by" is a ghost field the
\* code never reads: which expression allocated the object.
Obj(by, props) == [t |-> "object", by |-> by, props |-> props]
JSError(name, msg) == [t |-> "error", name |-> name, msg |-> msg]

IsObjectLike(x) == x.t \in {"object", "array", "error"}

\* typeof x
TypeOf(x) ==
    IF x.t = "null" \/ IsObjectLike(x) THEN "object" ELSE x.t

(***************************************************************************)
(* Completions                                                             *)
(***************************************************************************)
Ret(v) == [tag |-> "return", val |-> v, calls |-> <<>>]
Throw(e) == [tag |-> "throw", val |-> e, calls |-> <<>>]

Returned(c) == c.tag = "return"
Threw(c) == c.tag = "throw"

\* Sequencing: evaluate c, and if it returned, continue with K on its value.
Then(c, K(_)) ==
    IF Threw(c) THEN c
    ELSE LET k == K(c.val) IN [k EXCEPT !.calls = c.calls \o k.calls]

\* A call of the caller-supplied callback named fn, a table f, on the
\* arguments as (callbacks never throw).
Invoke(fn, f, as) ==
    [tag |-> "return", val |-> f[as], calls |-> <<[fn |-> fn, args |-> as]>>]

\* x[k]: a TypeError on null and undefined, undefined for a missing key.
GetProp(x, k) ==
    IF x.t \in {"null", "undefined"}
    THEN Throw(JSError("TypeError", "Cannot read properties of " \o x.t))
    ELSE IF x.t = "object" /\ k \in DOMAIN x.props
         THEN Ret(x.props[k])
         ELSE Ret(Undefined)

\* k in x, for an x already known to be a non-null object
HasProp(k, x) == x.t = "object" /\ k \in DOMAIN x.props

(***************************************************************************)
(* shared: the symbols and the Ordering enum                               *)
(***************************************************************************)
TYPE == "shared.TYPE"
VALUE == "shared.VALUE"

Less == Num(-1)
Equal == Num(0)
Greater == Num(1)

(***************************************************************************)
(* Nominal.ts                                                              *)
(***************************************************************************)
\* Mutant: the two symbol keys exchanged.
Nominal_swapped(v, t) == Obj("Nominal", (VALUE :> t) @@ (TYPE :> v))

Nominal(v, t) == Obj("Nominal", (VALUE :> v) @@ (TYPE :> t))

Nominal_type(n) == GetProp(n, TYPE)

Nominal_value(n) == GetProp(n, VALUE)

\* Mutant: only the TYPE key is looked for.
Nominal_is_nominal_type_only(v) ==
    Ret(Bool(TypeOf(v) = "object" /\ v # Null /\ HasProp(TYPE, v)))

Nominal_is_nominal(v) ==
    Ret(Bool(TypeOf(v) = "object" /\ v # Null /\ HasProp(TYPE, v) /\ HasProp(VALUE, v)))

(***************************************************************************)
(* Result.ts                                                               *)
(***************************************************************************)
OK == Sym("Ok")
ERR == Sym("Err")

Ok(value) == Nominal(value, OK)

Err(error) == Nominal(error, ERR)

Result_ok(v) == Ret(Ok(v))

Result_err(e) == Ret(Err(e))

Result_is_ok(result) ==
    Then(Nominal_type(result), LAMBDA ty : Ret(Bool(ty = OK)))

Result_is_err(result) ==
    Then(Nominal_type(result), LAMBDA ty : Ret(Bool(ty = ERR)))

Result_get_ok(r) ==
    Then(Result_is_ok(r), LAMBDA b :
        IF b.b THEN Nominal_value(r)
        ELSE Throw(JSError("Error", "Tried to get Ok value from Err")))

Result_get_err(r) ==
    Then(Result_is_err(r), LAMBDA b :
        IF b.b THEN Nominal_value(r)
        ELSE Throw(JSError("Error", "Tried to get Err value from Ok")))

Result_value(r, fallback) ==
    Then(Result_is_ok(r), LAMBDA b :
        IF b.b THEN Result_get_ok(r) ELSE Ret(fallback))

\* Mutant: the test of the variant is inverted.
Result_bind_inverted(r, f) ==
    Then(Result_is_err(r), LAMBDA b :
        IF b.b
        THEN Then(Result_get_ok(r), LAMBDA v : Invoke("f", f, <<v>>))
        ELSE Ret(r))

Result_bind(r, f) ==
    Then(Result_is_ok(r), LAMBDA b :
        IF b.b
        THEN Then(Result_get_ok(r), LAMBDA v : Invoke("f", f, <<v>>))
        ELSE Ret(r))

\* Mutant: the Ok payload is taken without looking at the variant.
Result_join_unchecked(rr) == Result_get_ok(rr)

Result_join(rr) ==
    Then(Result_is_ok(rr), LAMBDA b :
        IF b.b THEN Result_get_ok(rr) ELSE Ret(rr))

\* Mutant: an Err is wrapped again instead of passed through.
Result_map_rewrapping(f, r) ==
    Then(Result_is_ok(r), LAMBDA b :
        IF b.b
        THEN Then(Result_get_ok(r), LAMBDA v :
                 Then(Invoke("f", f, <<v>>), LAMBDA u : Ret(Ok(u))))
        ELSE Ret(Err(r)))

Result_map(f, r) ==
    Then(Result_is_ok(r), LAMBDA b :
        IF b.b
        THEN Then(Result_get_ok(r), LAMBDA v :
                 Then(Invoke("f", f, <<v>>), LAMBDA u : Ret(Ok(u))))
        ELSE Ret(r))

Result_map_err(f, r) ==
    Then(Result_is_err(r), LAMBDA b :
        IF b.b
        THEN Then(Result_get_err(r), LAMBDA e :
                 Then(Invoke("f", f, <<e>>), LAMBDA u : Ret(Err(u))))
        ELSE Ret(r))

\* Mutant: both payloads are unwrapped before the variant is looked at.
Result_fold_eager(ok, err, r) ==
    Then(Result_get_ok(r), LAMBDA v :
    Then(Result_get_err(r), LAMBDA e :
    Then(Result_is_ok(r), LAMBDA b :
        IF b.b THEN Invoke("ok", ok, <<v>>) ELSE Invoke("err", err, <<e>>))))

Result_fold(ok, err, r) ==
    Then(Result_is_ok(r), LAMBDA b :
        IF b.b
        THEN Then(Result_get_ok(r), LAMBDA v : Invoke("ok", ok, <<v>>))
        ELSE Then(Result_get_err(r), LAMBDA e : Invoke("err", err, <<e>>)))

Result_iter(f, r) ==
    Then(Result_is_ok(r), LAMBDA b :
        IF b.b
        THEN Then(Result_get_ok(r), LAMBDA v :
                 Then(Invoke("f", f, <<v>>), LAMBDA u : Ret(Undefined)))
        ELSE Ret(Undefined))

Result_iter_err(f, r) ==
    Then(Result_is_err(r), LAMBDA b :
        IF b.b
        THEN Then(Result_get_err(r), LAMBDA e :
                 Then(Invoke("f", f, <<e>>), LAMBDA u : Ret(Undefined)))
        ELSE Ret(Undefined))

\* Mutant: the variants are not compared first.
Result_equal_unguarded(ok, err, r0, r1) ==
    Then(Result_is_ok(r0), LAMBDA b :
        IF b.b
        THEN Then(Result_get_ok(r0), LAMBDA v0 :
             Then(Result_get_ok(r1), LAMBDA v1 : Invoke("ok", ok, <<v0, v1>>)))
        ELSE Then(Result_get_err(r0), LAMBDA e0 :
             Then(Result_get_err(r1), LAMBDA e1 : Invoke("err", err, <<e0, e1>>))))

Result_equal(ok, err, r0, r1) ==
    Then(Result_is_ok(r0), LAMBDA b0 :
    Then(Result_is_ok(r1), LAMBDA b1 :
        IF b0.b # b1.b THEN Ret(Bool(FALSE))
        ELSE Then(Result_is_ok(r0), LAMBDA b :
            IF b.b
            THEN Then(Result_get_ok(r0), LAMBDA v0 :
                 Then(Result_get_ok(r1), LAMBDA v1 : Invoke("ok", ok, <<v0, v1>>)))
            ELSE Then(Result_get_err(r0), LAMBDA e0 :
                 Then(Result_get_err(r1), LAMBDA e1 : Invoke("err", err, <<e0, e1>>))))))

\* a && b on two boolean completions: b is evaluated only when a is true
AndAlso(a, b) ==
    Then(a, LAMBDA x : IF x.b THEN b ELSE Ret(x))

Result_compare(ok, err, r0, r1) ==
    Then(AndAlso(Result_is_ok(r0), Result_is_ok(r1)), LAMBDA bothOk :
        IF bothOk.b
        THEN Then(Result_get_ok(r0), LAMBDA v0 :
             Then(Result_get_ok(r1), LAMBDA v1 : Invoke("ok", ok, <<v0, v1>>)))
        ELSE Then(AndAlso(Result_is_err(r0), Result_is_err(r1)), LAMBDA bothErr :
            IF bothErr.b
            THEN Then(Result_get_err(r0), LAMBDA e0 :
                 Then(Result_get_err(r1), LAMBDA e1 : Invoke("err", err, <<e0, e1>>)))
            ELSE Then(Result_is_ok(r0), LAMBDA b :
                     IF b.b THEN Ret(Less) ELSE Ret(Greater))))

(***************************************************************************)
(* Option, symbol-keyed encoding (part_001, second module)                 *)
(***************************************************************************)
SOME == Sym("SOME")
NONE == Sym("NONE")
Option_TYPE == "Option.TYPE"
Option_VALUE == "Option.VALUE"

Some(v) == Obj("Some", (Option_TYPE :> SOME) @@ (Option_VALUE :> v))

None == Obj("None", (Option_TYPE :> NONE))

Option_is_none(value) ==
    Then(GetProp(value, Option_TYPE), LAMBDA ty : Ret(Bool(ty = NONE)))

\* Mutant: a Some is recognised by a present payload, not by its tag.
Option_is_some_by_payload(value) ==
    Then(GetProp(value, Option_VALUE), LAMBDA v :
        Ret(Bool(v # Null /\ v # Undefined)))

Option_is_some(value) ==
    Then(GetProp(value, Option_TYPE), LAMBDA ty : Ret(Bool(ty = SOME)))

\* Mutant: only null is taken for absent.
Option_from_null_only(v) ==
    Ret(IF v = Null THEN None ELSE Some(v))

Option_from(v) ==
    Ret(IF v = Null \/ v = Undefined THEN None ELSE Some(v))

Option_none == Ret(None)

\* Mutant: some normalises an absent value like from does.
Option_some_normalizing(v) ==
    Ret(IF v = Null \/ v = Undefined THEN None ELSE Some(v))

Option_some(v) == Ret(Some(v))

Option_get(o) ==
    Then(Option_is_none(o), LAMBDA b :
        IF b.b THEN Throw(JSError("Error", "tried to get value of none"))
        ELSE GetProp(o, Option_VALUE))

\* Mutant: an absent payload falls back to the default (get(o) ?? defaultValue).
Option_value_coalescing(o, defaultValue) ==
    Then(Option_is_none(o), LAMBDA b :
        IF b.b THEN Ret(defaultValue)
        ELSE Then(Option_get(o), LAMBDA v :
             Ret(IF v = Null \/ v = Undefined THEN defaultValue ELSE v)))

Option_value(o, defaultValue) ==
    Then(Option_is_none(o), LAMBDA b :
        IF b.b THEN Ret(defaultValue) ELSE Option_get(o))

\* Mutant: the callback's option is wrapped again, as map would.
Option_bind_wrapping(o, f) ==
    Then(Option_is_none(o), LAMBDA b :
        IF b.b THEN Ret(None)
        ELSE Then(Option_get(o), LAMBDA v :
             Then(Invoke("f", f, <<v>>), LAMBDA u : Ret(Some(u)))))

Option_bind(o, f) ==
    Then(Option_is_none(o), LAMBDA b :
        IF b.b THEN Ret(None)
        ELSE Then(Option_get(o), LAMBDA v : Invoke("f", f, <<v>>)))

\* Mutant: an absent payload of the inner Some makes the result a None.
Option_join_collapsing(oo) ==
    Then(Option_is_none(oo), LAMBDA b :
        IF b.b THEN Ret(None)
        ELSE Then(Option_get(oo), LAMBDA o :
             Then(Option_is_none(o), LAMBDA b2 :
                 IF b2.b \/ o.props[Option_VALUE] \in {Null, Undefined}
                 THEN Ret(None) ELSE Ret(o))))

Option_join(oo) ==
    Then(Option_is_none(oo), LAMBDA b :
        IF b.b THEN Ret(None)
        ELSE Then(Option_get(oo), LAMBDA o :
             Then(Option_is_none(o), LAMBDA b2 :
                 IF b2.b THEN Ret(None) ELSE Ret(o))))

\* Mutant: an absent f(v) collapses to None, as the absence-sentinel map does.
Option_map_collapsing(f, o) ==
    Then(Option_is_none(o), LAMBDA b :
        IF b.b THEN Ret(None)
        ELSE Then(Option_get(o), LAMBDA v :
             Then(Invoke("f", f, <<v>>), LAMBDA u :
                 Ret(IF u = Null \/ u = Undefined THEN None ELSE Some(u)))))

Option_map(f, o) ==
    Then(Option_is_none(o), LAMBDA b :
        IF b.b THEN Ret(None)
        ELSE Then(Option_get(o), LAMBDA v :
             Then(Invoke("f", f, <<v>>), LAMBDA u : Ret(Some(u)))))

Option_fold(none, some, o) ==
    Then(Option_is_none(o), LAMBDA b :
        IF b.b THEN Invoke("none", none, <<>>)
        ELSE Then(Option_get(o), LAMBDA v : Invoke("some", some, <<v>>)))

Option_iter(f, o) ==
    Then(Option_is_some(o), LAMBDA b :
        IF b.b
        THEN Then(Option_get(o), LAMBDA v :
                 Then(Invoke("f", f, <<v>>), LAMBDA u : Ret(Undefined)))
        ELSE Ret(Undefined))

Option_equal(eq, o0, o1) ==
    Then(Option_is_none(o0), LAMBDA n0 :
    Then(Option_is_none(o1), LAMBDA n1 :
        IF n0.b /\ n1.b THEN Ret(Bool(TRUE))
        ELSE IF n0.b \/ n1.b THEN Ret(Bool(FALSE))
        ELSE Then(Option_get(o0), LAMBDA v0 :
             Then(Option_get(o1), LAMBDA v1 : Invoke("eq", eq, <<v0, v1>>)))))

\* Mutant: a None on the left is Less before the right is looked at.
Option_compare_left_first(cmp, o0, o1) ==
    Then(Option_is_none(o0), LAMBDA n0 :
    Then(Option_is_none(o1), LAMBDA n1 :
        IF n0.b THEN Ret(Less)
        ELSE IF n1.b THEN Ret(Greater)
        ELSE Then(Option_get(o0), LAMBDA v0 :
             Then(Option_get(o1), LAMBDA v1 : Invoke("cmp", cmp, <<v0, v1>>)))))

Option_compare(cmp, o0, o1) ==
    Then(Option_is_none(o0), LAMBDA n0 :
    Then(Option_is_none(o1), LAMBDA n1 :
        IF n0.b /\ n1.b THEN Ret(Equal)
        ELSE IF n0.b THEN Ret(Less)
        ELSE IF n1.b THEN Ret(Greater)
        ELSE Then(Option_get(o0), LAMBDA v0 :
             Then(Option_get(o1), LAMBDA v1 : Invoke("cmp", cmp, <<v0, v1>>)))))

Option_to_array(o) ==
    Then(Option_is_none(o), LAMBDA b :
        IF b.b THEN Ret(Arr(<<>>))
        ELSE Then(Option_get(o), LAMBDA v : Ret(Arr(<<v>>))))

(***************************************************************************)
(* Option, absence-sentinel encoding (part_001, first module): Some(v) is  *)
(* v itself and None is null.                                              *)
(***************************************************************************)
Sentinel_Some(v) == v

Sentinel_None == Null

Sentinel_is_none(value) == Ret(Bool(value = Undefined \/ value = Null))

Sentinel_is_some(value) == Ret(Bool(value # Undefined /\ value # Null))

Sentinel_from(v) ==
    Ret(IF v = Null \/ v = Undefined THEN Sentinel_None ELSE Sentinel_Some(v))

Sentinel_get(o) ==
    Then(Sentinel_is_none(o), LAMBDA b :
        IF b.b THEN Throw(JSError("Error", "tried to get value of none"))
        ELSE Ret(o))

Sentinel_value(o, defaultValue) ==
    Then(Sentinel_is_none(o), LAMBDA b :
        IF b.b THEN Ret(defaultValue) ELSE Sentinel_get(o))

Sentinel_map(f, o) ==
    Then(Sentinel_is_none(o), LAMBDA b :
        IF b.b THEN Ret(Sentinel_None)
        ELSE Then(Invoke("f", f, <<o>>), LAMBDA u : Ret(Sentinel_Some(u))))

Sentinel_fold(none, some, o) ==
    Then(Sentinel_is_none(o), LAMBDA b :
        IF b.b THEN Invoke("none", none, <<>>)
        ELSE Invoke("some", some, <<o>>))

(***************************************************************************)
(* What a client passes in                                                 *)
(***************************************************************************)
\* values of the payload type T: numbers and the two absent values
Payload == {Null, Undefined} \cup {Num(n) : n \in 0..MaxNum}

\* values of the error type E
ErrPayload == {Str("boom"), Str("bang")}

RECURSIVE Depth(_)
\* how many wrappers (objects and arrays) are nested in x
Depth(x) ==
    LET ds == IF x.t = "object" THEN {Depth(x.props[k]) : k \in DOMAIN x.props}
              ELSE IF x.t = "array" THEN {Depth(x.items[i]) : i \in DOMAIN x.items}
              ELSE {}
    IN  IF x.t \notin {"object", "array"} THEN 0
        ELSE 1 + (IF ds = {} THEN 0 ELSE CHOOSE m \in ds : \A d \in ds : d <= m)

\* The static type Option<T> of the symbol-keyed encoding: Some<T> | None.
IsOption(x) ==
    /\ x.t = "object"
    /\ Option_TYPE \in DOMAIN x.props
    /\ \/ x.props[Option_TYPE] = NONE
       \/ x.props[Option_TYPE] = SOME /\ Option_VALUE \in DOMAIN x.props

\* Result.is_result: the static type Result<T, E>, Ok<T> | Err<E>.
Result_is_result(x) ==
    /\ TypeOf(x) = "object"
    /\ x # Null
    /\ Nominal_is_nominal(x).val.b
    /\ (Nominal_type(x).val = OK \/ Nominal_type(x).val = ERR)

\* The static type Nominal<any, any>.
IsNominalType(x) == x.t = "object" /\ {TYPE, VALUE} \subseteq DOMAIN x.props

\* one-argument callbacks as tables over the argument lists <<v>>, v in D
Args1(D) == {<<v>> : v \in D}
Args2(D) == {<<a, b>> : a \in D, b \in D}

Succ(x) == IF x.t = "number" THEN Num((x.n + 1) % (MaxNum + 1)) ELSE x

\* callbacks T -> T
MapFns ==
    {[as \in Args1(Payload) |-> as[1]]}
    \cup {[as \in Args1(Payload) |-> Succ(as[1])]}
    \cup {[as \in Args1(Payload) |-> c] : c \in Payload}
    \cup {[as \in Args1(Payload) |-> IF as[1].t = "number" THEN Null ELSE Num(0)]}

\* callbacks T -> Option<T>; the first is Option.some, the fourth Option.from
OptionBindFns ==
    {[as \in Args1(Payload) |-> Some(as[1])]}
    \cup {[as \in Args1(Payload) |-> None]}
    \cup {[as \in Args1(Payload) |-> Some(Succ(as[1]))]}
    \cup {[as \in Args1(Payload) |-> Option_from(as[1]).val]}
    \cup {[as \in Args1(Payload) |-> IF as[1] = Num(0) THEN None ELSE Some(Null)]}

\* callbacks T -> Result<T, E>; the first is Result.ok
ResultBindFns ==
    {[as \in Args1(Payload) |-> Ok(as[1])]}
    \cup {[as \in Args1(Payload) |-> Err(e)] : e \in ErrPayload}
    \cup {[as \in Args1(Payload) |->
             IF as[1].t = "number" THEN Ok(Succ(as[1])) ELSE Err(Str("bang"))]}
    \cup {[as \in Args1(Payload) |->
             IF as[1] = Num(0) THEN Err(Str("boom")) ELSE Ok(Null)]}

\* callbacks E -> F
ErrFns ==
    {[as \in Args1(ErrPayload) |-> as[1]]}
    \cup {[as \in Args1(ErrPayload) |-> Str("bang")]}
    \cup {[as \in Args1(ErrPayload) |-> IF as[1] = Str("boom") THEN Num(0) ELSE Null]}

\* a zero-argument callback () => D
Thunk(D) == (<<>> :> D)

\* the order of numbers, null and undefined first
Rank(x) == IF x.t = "number" THEN x.n + 2 ELSE IF x.t = "null" THEN 1 ELSE 0

Ordering(a, b) == IF a < b THEN Less ELSE IF a > b THEN Greater ELSE Equal

CmpFns ==
    {[as \in Args2(Payload) |-> Ordering(Rank(as[1]), Rank(as[2]))]}
    \cup {[as \in Args2(Payload) |-> Ordering(Rank(as[2]), Rank(as[1]))]}

EqFns ==
    {[as \in Args2(Payload) |-> Bool(as[1] = as[2])]}
    \cup {[as \in Args2(Payload) |-> Bool(as[1].t = as[2].t)]}

ErrCmpFns ==
    {[as \in Args2(ErrPayload) |->
        IF as[1] = as[2] THEN Equal ELSE IF as[1] = Str("bang") THEN Less ELSE Greater]}

ErrEqFns ==
    {[as \in Args2(ErrPayload) |-> Bool(as[1] = as[2])]}
    \cup {[as \in Args2(ErrPayload) |-> Bool(TRUE)]}

NoFn == <<>>

(***************************************************************************)
(* The client: the last two calls                                          *)
(***************************************************************************)
\* A call: the operation, its option/result/nominal argument (on), its plain
\* arguments (x, y), its callbacks (f, g) and how it completed.
Call(op, on, x, y, f, g, out) ==
    [op |-> op, on |-> on, x |-> x, y |-> y, f |-> f, g |-> g, out |-> out]

\* in a call's record: the operation takes no such argument
NoArg == [t |-> "absent"]

Start == Call("start", NoArg, NoArg, NoArg, NoFn, NoFn, Ret(Undefined))

\* the value the last call returned
Reg == cur.out.val

HasReg == cur.op # "start" /\ Returned(cur.out)

\* The client makes the call c.  A client evaluates one expression: its
\* first call takes fresh arguments, every later call takes the value the
\* call before it returned.  prev is the call that produced c's
\* option/result/nominal argument c.on, and no call when c has none.  chain
\* is the run of consecutive Result.bind calls that c ends, if it is one.
Do(c) ==
    /\ cur' = c
    /\ prev' = IF c.on = NoArg THEN Start ELSE cur
    /\ chain' = IF c.op = "Result.bind" THEN Append(chain, c) ELSE <<>>

\* a call with no option/result/nominal argument: a constructor, or a test
\* of an arbitrary value
Make(op, x, y, out) == Do(Call(op, NoArg, x, y, NoFn, NoFn, out))

\* a call on the value the last call returned
Apply(op, x, f, g, out) == Do(Call(op, Reg, x, NoArg, f, g, out))

\* arguments a client writes down are the first call's
Fresh(S) == {v \in S : cur = Start}

\* the value just returned, when wrapping it stays within MaxDepth
RegToWrap == {v \in {Reg} : HasReg /\ Depth(v) < MaxDepth}

\* what a constructor may wrap: a payload, or the value just returned
Wrappable == Fresh(Payload) \cup RegToWrap

Init == cur = Start /\ prev = Start /\ chain = <<>>

(* Nominal *)
Discriminators == {OK, Str("a"), Undefined}

\* objects written as literals by the client, not made by a constructor
Literals ==
    {Obj("literal", <<>>)}
    \cup {Obj("literal", (TYPE :> d)) : d \in {OK}}
    \cup {Obj("literal", (VALUE :> v)) : v \in {Num(0)}}
    \cup {Obj("literal", (VALUE :> v) @@ (TYPE :> d)) :
            v \in {Num(0), Undefined}, d \in {OK, Undefined}}

Unknowns ==
    Fresh(Payload \cup ErrPayload \cup Literals \cup {Sym("Ok"), Bool(TRUE), Some(Num(0)), None})
    \cup {v \in {Reg} : HasReg}

CallNominal ==
    \E v \in Wrappable, d \in Discriminators :
        Make("Nominal", v, d, Ret(Nominal(v, d)))

CallNominalType ==
    /\ HasReg /\ IsNominalType(Reg)
    /\ Apply("Nominal.type", NoArg, NoFn, NoFn, Nominal_type(Reg))

CallNominalValue ==
    /\ HasReg /\ IsNominalType(Reg)
    /\ Apply("Nominal.value", NoArg, NoFn, NoFn, Nominal_value(Reg))

CallIsNominal ==
    \E v \in Unknowns :
        Make("Nominal.is_nominal", v, NoArg, Nominal_is_nominal(v))

NominalNext ==
    \/ CallNominal
    \/ CallNominalType
    \/ CallNominalValue
    \/ CallIsNominal

(* Option, symbol-keyed *)
\* the option is one the callback table f is declared for: Option<T>
OptionOf(o, D) ==
    IsOption(o) /\ (Option_is_none(o).val.b \/ Option_get(o).val \in D)

RegIsOption == HasReg /\ IsOption(Reg)

RegIsOptionOfT == HasReg /\ OptionOf(Reg, Payload)

\* Option<Option<T>>
RegIsOptionOfOption ==
    /\ RegIsOption
    /\ Option_is_none(Reg).val.b \/ IsOption(Option_get(Reg).val)

OptionInputs == {None} \cup {Some(p) : p \in Payload}

CallOptionSome ==
    \E v \in Wrappable :
        Make("Option.some", v, NoArg, Option_some(v))

CallOptionNone ==
    /\ cur = Start
    /\ Make("Option.none", NoArg, NoArg, Option_none)

CallOptionFrom ==
    \E v \in Wrappable :
        Make("Option.from", v, NoArg, Option_from(v))

CallOptionGet ==
    RegIsOption /\ Apply("Option.get", NoArg, NoFn, NoFn, Option_get(Reg))

CallOptionValue ==
    /\ RegIsOptionOfT
    /\ \E D \in Payload :
        Apply("Option.value", D, NoFn, NoFn, Option_value(Reg, D))

CallOptionBind ==
    /\ RegIsOptionOfT
    /\ \E f \in OptionBindFns :
        Apply("Option.bind", NoArg, f, NoFn, Option_bind(Reg, f))

CallOptionJoin ==
    /\ RegIsOptionOfOption
    /\ Apply("Option.join", NoArg, NoFn, NoFn, Option_join(Reg))

CallOptionMap ==
    /\ RegIsOptionOfT
    /\ \E f \in MapFns :
        Apply("Option.map", NoArg, f, NoFn, Option_map(f, Reg))

CallOptionFold ==
    /\ RegIsOptionOfT
    /\ \E D \in Payload, f \in MapFns :
        Apply("Option.fold", D, f, NoFn, Option_fold(Thunk(D), f, Reg))

CallOptionIter ==
    /\ RegIsOptionOfT
    /\ \E f \in MapFns :
        Apply("Option.iter", NoArg, f, NoFn, Option_iter(f, Reg))

CallOptionIsNone ==
    RegIsOption /\ Apply("Option.is_none", NoArg, NoFn, NoFn, Option_is_none(Reg))

CallOptionIsSome ==
    RegIsOption /\ Apply("Option.is_some", NoArg, NoFn, NoFn, Option_is_some(Reg))

CallOptionEqual ==
    /\ RegIsOptionOfT
    /\ \E eq \in EqFns, o1 \in OptionInputs :
        Apply("Option.equal", o1, eq, NoFn, Option_equal(eq, Reg, o1))

CallOptionCompare ==
    /\ RegIsOptionOfT
    /\ \E cmp \in CmpFns, o1 \in OptionInputs :
        Apply("Option.compare", o1, cmp, NoFn, Option_compare(cmp, Reg, o1))

CallOptionToArray ==
    RegIsOption /\ Apply("Option.to_array", NoArg, NoFn, NoFn, Option_to_array(Reg))

OptionNext ==
    \/ CallOptionSome
    \/ CallOptionNone
    \/ CallOptionFrom
    \/ CallOptionGet
    \/ CallOptionValue
    \/ CallOptionBind
    \/ CallOptionJoin
    \/ CallOptionMap
    \/ CallOptionFold
    \/ CallOptionIter
    \/ CallOptionIsNone
    \/ CallOptionIsSome
    \/ CallOptionEqual
    \/ CallOptionCompare
    \/ CallOptionToArray

(* Result *)
\* Result<T, E>: an Ok of a payload the callbacks are declared for, or an
\* Err of such an error
ResultOf(r, D, F) ==
    /\ Result_is_result(r)
    /\ \/ Result_is_ok(r).val.b /\ Result_get_ok(r).val \in D
       \/ Result_is_err(r).val.b /\ Result_get_err(r).val \in F

RegIsResult == HasReg /\ Result_is_result(Reg)

RegIsResultOfTE == HasReg /\ ResultOf(Reg, Payload, ErrPayload)

\* Result<Result<T, E>, E>
RegIsResultOfResult ==
    /\ RegIsResult
    /\ \/ Result_is_ok(Reg).val.b /\ Result_is_result(Result_get_ok(Reg).val)
       \/ Result_is_err(Reg).val.b

ResultInputs == {Ok(p) : p \in Payload} \cup {Err(e) : e \in ErrPayload}

CallResultOk ==
    \E v \in Wrappable :
        Make("Result.ok", v, NoArg, Result_ok(v))

CallResultErr ==
    \E e \in Fresh(ErrPayload) \cup RegToWrap :
        Make("Result.err", e, NoArg, Result_err(e))

CallResultValue ==
    /\ RegIsResultOfTE
    /\ \E fallback \in Payload :
        Apply("Result.value", fallback, NoFn, NoFn, Result_value(Reg, fallback))

CallResultGetOk ==
    RegIsResult /\ Apply("Result.get_ok", NoArg, NoFn, NoFn, Result_get_ok(Reg))

CallResultGetErr ==
    RegIsResult /\ Apply("Result.get_err", NoArg, NoFn, NoFn, Result_get_err(Reg))

CallResultBind ==
    /\ RegIsResultOfTE
    /\ Len(chain) < MaxChain
    /\ \E f \in ResultBindFns :
        Apply("Result.bind", NoArg, f, NoFn, Result_bind(Reg, f))

CallResultJoin ==
    /\ RegIsResultOfResult
    /\ Apply("Result.join", NoArg, NoFn, NoFn, Result_join(Reg))

CallResultMap ==
    /\ RegIsResultOfTE
    /\ \E f \in MapFns :
        Apply("Result.map", NoArg, f, NoFn, Result_map(f, Reg))

CallResultMapErr ==
    /\ RegIsResultOfTE
    /\ \E f \in ErrFns :
        Apply("Result.map_err", NoArg, f, NoFn, Result_map_err(f, Reg))

CallResultFold ==
    /\ RegIsResultOfTE
    /\ \E ok \in MapFns, err \in ErrFns :
        Apply("Result.fold", NoArg, ok, err, Result_fold(ok, err, Reg))

CallResultIter ==
    /\ RegIsResultOfTE
    /\ \E f \in MapFns :
        Apply("Result.iter", NoArg, f, NoFn, Result_iter(f, Reg))

CallResultIterErr ==
    /\ RegIsResultOfTE
    /\ \E f \in ErrFns :
        Apply("Result.iter_err", NoArg, f, NoFn, Result_iter_err(f, Reg))

CallResultIsOk ==
    RegIsResult /\ Apply("Result.is_ok", NoArg, NoFn, NoFn, Result_is_ok(Reg))

CallResultIsErr ==
    RegIsResult /\ Apply("Result.is_err", NoArg, NoFn, NoFn, Result_is_err(Reg))

CallResultEqual ==
    /\ RegIsResultOfTE
    /\ \E ok \in EqFns, err \in ErrEqFns, r1 \in ResultInputs :
        Apply("Result.equal", r1, ok, err, Result_equal(ok, err, Reg, r1))

CallResultCompare ==
    /\ RegIsResultOfTE
    /\ \E ok \in CmpFns, err \in ErrCmpFns, r1 \in ResultInputs :
        Apply("Result.compare", r1, ok, err, Result_compare(ok, err, Reg, r1))

ResultNext ==
    \/ CallResultOk
    \/ CallResultErr
    \/ CallResultValue
    \/ CallResultGetOk
    \/ CallResultGetErr
    \/ CallResultBind
    \/ CallResultJoin
    \/ CallResultMap
    \/ CallResultMapErr
    \/ CallResultFold
    \/ CallResultIter
    \/ CallResultIterErr
    \/ CallResultIsOk
    \/ CallResultIsErr
    \/ CallResultEqual
    \/ CallResultCompare

(* Option, absence-sentinel *)
SentinelOps ==
    {"Sentinel.from", "Sentinel.get", "Sentinel.is_none", "Sentinel.is_some",
     "Sentinel.value", "Sentinel.map", "Sentinel.fold"}

\* Option<T> of this encoding is T | null | undefined; a client uses one
\* encoding in an expression
RegIsSentinelOption == HasReg /\ cur.op \in SentinelOps /\ Reg \in Payload

CallSentinelFrom ==
    \E v \in Fresh(Payload) :
        Make("Sentinel.from", v, NoArg, Sentinel_from(v))

CallSentinelGet ==
    RegIsSentinelOption /\ Apply("Sentinel.get", NoArg, NoFn, NoFn, Sentinel_get(Reg))

CallSentinelIsNone ==
    /\ RegIsSentinelOption
    /\ Apply("Sentinel.is_none", NoArg, NoFn, NoFn, Sentinel_is_none(Reg))

CallSentinelIsSome ==
    /\ RegIsSentinelOption
    /\ Apply("Sentinel.is_some", NoArg, NoFn, NoFn, Sentinel_is_some(Reg))

CallSentinelValue ==
    /\ RegIsSentinelOption
    /\ \E D \in Payload :
        Apply("Sentinel.value", D, NoFn, NoFn, Sentinel_value(Reg, D))

CallSentinelMap ==
    /\ RegIsSentinelOption
    /\ \E f \in MapFns :
        Apply("Sentinel.map", NoArg, f, NoFn, Sentinel_map(f, Reg))

CallSentinelFold ==
    /\ RegIsSentinelOption
    /\ \E D \in Payload, f \in MapFns :
        Apply("Sentinel.fold", D, f, NoFn, Sentinel_fold(Thunk(D), f, Reg))

SentinelNext ==
    \/ CallSentinelFrom
    \/ CallSentinelGet
    \/ CallSentinelIsNone
    \/ CallSentinelIsSome
    \/ CallSentinelValue
    \/ CallSentinelMap
    \/ CallSentinelFold

(***************************************************************************)
(* Option, cast-based encoding: Some(v) is v seen through a type cast, and *)
(* None is null.                                                           *)
(***************************************************************************)
\* the compile-time-only Nominal: a cast
Cast_Nominal(value) == value

Cast_Some(v) == Cast_Nominal(v)

Cast_None == Null

Cast_none == Ret(Null)

Cast_some(v) == Ret(Cast_Nominal(v))

Cast_is_none(value) == Ret(Bool(value = Null \/ value = Undefined))

Cast_is_some(value) == Ret(Bool(value # Null /\ value # Undefined))

Cast_get(o) ==
    Then(Cast_is_none(o), LAMBDA b :
        IF b.b THEN Throw(JSError("Error", "tried to get value of none"))
        ELSE Ret(o))

Cast_join(oo) ==
    Then(Cast_is_none(oo), LAMBDA b :
        IF b.b THEN Ret(Cast_None)
        ELSE Then(Cast_get(oo), LAMBDA o :
             Then(Cast_is_none(o), LAMBDA b2 :
                 IF b2.b THEN Ret(Cast_None) ELSE Ret(o))))

CastOps ==
    {"Cast.some", "Cast.none", "Cast.get", "Cast.join", "Cast.is_none",
     "Cast.is_some"}

\* Option<T> of this encoding is (T & tag) | null | undefined
RegIsCastOption == HasReg /\ cur.op \in CastOps /\ Reg \in Payload

\* some(v) of a fresh v, or some(o) of the option o the last call returned;
\* y keeps the v of some(some(v))
CallCastSome ==
    \/ \E v \in Fresh(Payload) :
          Make("Cast.some", v, NoArg, Cast_some(v))
    \/ /\ RegIsCastOption
       /\ Make("Cast.some", Reg,
               IF cur.op = "Cast.some" THEN cur.x ELSE NoArg, Cast_some(Reg))

CallCastNone ==
    /\ cur = Start
    /\ Make("Cast.none", NoArg, NoArg, Cast_none)

CallCastGet ==
    RegIsCastOption /\ Apply("Cast.get", NoArg, NoFn, NoFn, Cast_get(Reg))

CallCastJoin ==
    RegIsCastOption /\ Apply("Cast.join", NoArg, NoFn, NoFn, Cast_join(Reg))

CallCastIsNone ==
    RegIsCastOption /\ Apply("Cast.is_none", NoArg, NoFn, NoFn, Cast_is_none(Reg))

CallCastIsSome ==
    RegIsCastOption /\ Apply("Cast.is_some", NoArg, NoFn, NoFn, Cast_is_some(Reg))

CastNext ==
    \/ CallCastSome
    \/ CallCastNone
    \/ CallCastGet
    \/ CallCastJoin
    \/ CallCastIsNone
    \/ CallCastIsSome

Next == NominalNext \/ OptionNext \/ ResultNext \/ SentinelNext \/ CastNext

Spec == Init /\ [][Next]_vars

(***************************************************************************)
(* Properties                                                              *)
(***************************************************************************)
\* the boolean a predicate call returned
Holds(c) == Returned(c) /\ c.val = Bool(TRUE)

IsAbsent(v) == v = Null \/ v = Undefined

OptionBuilders ==
    {"Option.some", "Option.none", "Option.from", "Option.map", "Option.bind",
     "Option.join"}

ResultBuilders ==
    {"Result.ok", "Result.err", "Result.map", "Result.map_err", "Result.bind",
     "Result.join"}

\* C1: every Option a builder returns satisfies exactly one of is_some and
\* is_none, is_some exactly when it is a Some whatever its payload; every
\* Result a builder returns satisfies exactly one of is_ok and is_err, is_ok
\* exactly when its discriminator is OK whatever its payload.
C1_ExactlyOneVariant ==
    /\ (cur.op \in OptionBuilders) =>
          /\ Returned(cur.out)
          /\ Returned(Option_is_some(Reg)) /\ Returned(Option_is_none(Reg))
          /\ Holds(Option_is_some(Reg)) # Holds(Option_is_none(Reg))
          /\ Holds(Option_is_some(Reg)) <=> (Reg.by = "Some")
    /\ (cur.op \in ResultBuilders) =>
          /\ Returned(cur.out)
          /\ Returned(Result_is_ok(Reg)) /\ Returned(Result_is_err(Reg))
          /\ Holds(Result_is_ok(Reg)) # Holds(Result_is_err(Reg))
          /\ Holds(Result_is_ok(Reg)) <=> (Reg.props[TYPE] = OK)
    /\ (cur.op \in {"Option.is_some", "Option.is_none"} /\ prev.op \in OptionBuilders) =>
          cur.out = Ret(Bool((cur.op = "Option.is_some") <=> (cur.on.by = "Some")))
    /\ (cur.op \in {"Result.is_ok", "Result.is_err"} /\ prev.op \in ResultBuilders) =>
          cur.out = Ret(Bool((cur.op = "Result.is_ok") <=> (cur.on.props[TYPE] = OK)))

\* an Ok whose payload is itself an Err was built and is_ok was asked of it
C1_Witness ==
    /\ cur.op = "Result.is_ok" /\ prev.op = "Result.ok"
    /\ Result_is_result(prev.x) /\ Holds(Result_is_err(prev.x))
    /\ Holds(cur.out)

\* C2: get(some(v)) returns v, get_ok(ok(v)) returns v and get_err(err(e))
\* returns e, for every v and e: absent values and nested options and
\* results too.
C2_UnwrapRoundTrip ==
    /\ (cur.op = "Option.get" /\ prev.op = "Option.some") => cur.out = Ret(prev.x)
    /\ (cur.op = "Result.get_ok" /\ prev.op = "Result.ok") => cur.out = Ret(prev.x)
    /\ (cur.op = "Result.get_err" /\ prev.op = "Result.err") => cur.out = Ret(prev.x)

\* get was called on some(undefined)
C2_Witness ==
    cur.op = "Option.get" /\ prev.op = "Option.some" /\ prev.x = Undefined

\* the calls the library documents as throwing
UnwrapOfWrongVariant ==
    \/ cur.op = "Option.get" /\ Holds(Option_is_none(cur.on))
    \/ cur.op = "Sentinel.get" /\ Holds(Sentinel_is_none(cur.on))
    \/ cur.op = "Cast.get" /\ Holds(Cast_is_none(cur.on))
    \/ cur.op = "Result.get_ok" /\ Holds(Result_is_err(cur.on))
    \/ cur.op = "Result.get_err" /\ Holds(Result_is_ok(cur.on))

\* C3: a call throws exactly when it is get on a None, get_ok on an Err or
\* get_err on an Ok; every other call on well-typed arguments returns.
C3_OnlyUnwrapThrows ==
    Threw(cur.out) <=> UnwrapOfWrongVariant

\* equal compared two Errs, through get_err, and returned
C3_Witness ==
    /\ cur.op = "Result.equal"
    /\ Holds(Result_is_err(cur.on)) /\ Holds(Result_is_err(cur.x))
    /\ Returned(cur.out)

\* C4: Nominal.type(Nominal(v, d)) is d and Nominal.value(Nominal(v, d)) is v.
C4_TagRoundTrip ==
    /\ (cur.op = "Nominal.type" /\ prev.op = "Nominal") => cur.out = Ret(prev.y)
    /\ (cur.op = "Nominal.value" /\ prev.op = "Nominal") => cur.out = Ret(prev.x)

\* the discriminator read back is undefined, the payload was a number
C4_Witness ==
    /\ cur.op = "Nominal.type" /\ prev.op = "Nominal"
    /\ prev.y = Undefined /\ prev.x = Num(1)

ProducedByNominal(x) == x.t = "object" /\ x.by = "Nominal"

\* C5 as stated: is_nominal(x) is true exactly when x was produced by the
\* Nominal constructor.
C5_IsNominalIffConstructed ==
    (cur.op = "Nominal.is_nominal") =>
        (Holds(cur.out) <=> ProducedByNominal(cur.x))

\* C5, amended: is_nominal(x) returns true exactly when x is a non-null
\* object carrying both the TYPE and the VALUE key.  So it is true of every
\* value Nominal constructed, false of primitives, null and objects lacking
\* a key, and true as well of an object carrying both keys that Nominal did
\* not construct.
C5_IsNominalIffBothKeys ==
    (cur.op = "Nominal.is_nominal") =>
        /\ Returned(cur.out)
        /\ ProducedByNominal(cur.x) => Holds(cur.out)
        /\ Holds(cur.out) <=>
              (cur.x.t = "object" /\ {TYPE, VALUE} \subseteq DOMAIN cur.x.props)

\* is_nominal answered true for an object literal
C5_Witness ==
    /\ cur.op = "Nominal.is_nominal"
    /\ cur.x.t = "object" /\ cur.x.by = "literal"
    /\ Holds(cur.out)

\* C6: from(v) returns a None when v is null or undefined and otherwise a
\* Some whose payload is v, in the symbol-keyed and in the absence-sentinel
\* encoding; it never throws.
C6_FromNormalizes ==
    /\ (cur.op = "Option.from") =>
          /\ Returned(cur.out)
          /\ IF IsAbsent(cur.x)
             THEN Holds(Option_is_none(Reg)) /\ ~Holds(Option_is_some(Reg))
             ELSE /\ Holds(Option_is_some(Reg)) /\ ~Holds(Option_is_none(Reg))
                  /\ Option_get(Reg) = Ret(cur.x)
    /\ (cur.op = "Sentinel.from") =>
          /\ Returned(cur.out)
          /\ IF IsAbsent(cur.x)
             THEN Holds(Sentinel_is_none(Reg)) /\ ~Holds(Sentinel_is_some(Reg))
             ELSE /\ Holds(Sentinel_is_some(Reg)) /\ ~Holds(Sentinel_is_none(Reg))
                  /\ Sentinel_get(Reg) = Ret(cur.x)
    /\ (cur.op \in {"Option.is_none", "Sentinel.is_none"}
          /\ prev.op \in {"Option.from", "Sentinel.from"}) =>
          (Holds(cur.out) <=> IsAbsent(prev.x))
    /\ (cur.op \in {"Option.get", "Sentinel.get"}
          /\ prev.op \in {"Option.from", "Sentinel.from"} /\ ~IsAbsent(prev.x)) =>
          cur.out = Ret(prev.x)

\* is_none was asked of from(undefined) and answered true
C6_Witness ==
    /\ cur.op = "Option.is_none" /\ prev.op = "Option.from"
    /\ prev.x = Undefined /\ Holds(cur.out)

\* the same variant and an equal payload
SameOption(a, b) ==
    /\ Option_is_some(a) = Option_is_some(b)
    /\ Option_is_none(a) = Option_is_none(b)
    /\ Holds(Option_is_some(a)) => Option_get(a) = Option_get(b)

SameResult(a, b) ==
    /\ Result_is_ok(a) = Result_is_ok(b)
    /\ Result_is_err(a) = Result_is_err(b)
    /\ Nominal_value(a) = Nominal_value(b)

\* Option.some and Result.ok as callbacks
SomeFn == [as \in Args1(Payload) |-> Option_some(as[1]).val]
OkFn == [as \in Args1(Payload) |-> Result_ok(as[1]).val]

\* x => bind(f(x), g)
OptionKleisli(f, g) == [as \in DOMAIN f |-> Option_bind(f[as], g).val]
ResultKleisli(f, g) == [as \in DOMAIN f |-> Result_bind(f[as], g).val]

\* C7: the monad laws of Option.bind and of Result.bind, up to variant and
\* payload: bind(some(v), f) is f(v); bind(o, some) is o; bind(bind(o, f), g)
\* is bind(o, x => bind(f(x), g)).
C7_MonadLaws ==
    /\ (cur.op = "Option.bind" /\ prev.op = "Option.some") =>
          SameOption(Reg, cur.f[<<prev.x>>])
    /\ (cur.op = "Option.bind" /\ cur.f = SomeFn) => SameOption(Reg, cur.on)
    /\ (cur.op = "Option.bind" /\ prev.op = "Option.bind") =>
          SameOption(Reg, Option_bind(prev.on, OptionKleisli(prev.f, cur.f)).val)
    /\ (cur.op = "Result.bind" /\ prev.op = "Result.ok") =>
          SameResult(Reg, cur.f[<<prev.x>>])
    /\ (cur.op = "Result.bind" /\ cur.f = OkFn) => SameResult(Reg, cur.on)
    /\ (cur.op = "Result.bind" /\ prev.op = "Result.bind") =>
          SameResult(Reg, Result_bind(prev.on, ResultKleisli(prev.f, cur.f)).val)

\* two binds in a row, each on a Some, ending in a Some
C7_Witness ==
    /\ cur.op = "Option.bind" /\ prev.op = "Option.bind"
    /\ Holds(Option_is_some(prev.on)) /\ Holds(Option_is_some(cur.on))
    /\ Holds(Option_is_some(Reg))
    /\ cur.f # SomeFn /\ prev.f # SomeFn

IdFn == [as \in Args1(Payload) |-> as[1]]

\* x => g(f(x))
Compose(f, g) == [as \in DOMAIN f |-> g[<<f[as]>>]]

\* C8: Option.map sends None to None and Some(v) to Some(f(v)); map(id, o)
\* is o; map(g, map(f, o)) is map(x => g(f(x)), o).
C8_FunctorLaws ==
    /\ (cur.op = "Option.map") =>
          IF Holds(Option_is_none(cur.on))
          THEN Holds(Option_is_none(Reg))
          ELSE /\ Holds(Option_is_some(Reg))
               /\ Option_get(Reg) = Ret(cur.f[<<Option_get(cur.on).val>>])
    /\ (cur.op = "Option.map" /\ cur.f = IdFn) => SameOption(Reg, cur.on)
    /\ (cur.op = "Option.map" /\ prev.op = "Option.map") =>
          SameOption(Reg, Option_map(Compose(prev.f, cur.f), prev.on).val)

\* two maps in a row on a Some, neither by the identity
C8_Witness ==
    /\ cur.op = "Option.map" /\ prev.op = "Option.map"
    /\ Holds(Option_is_some(prev.on))
    /\ cur.f # IdFn /\ prev.f # IdFn

\* C9 as stated: in both encodings, value(map(f, o), D) is
\* fold({none: () => D, some: f}, o).
C9_FoldConsistentBothEncodings ==
    /\ (cur.op = "Option.value" /\ prev.op = "Option.map") =>
          cur.out.val = Option_fold(Thunk(cur.x), prev.f, prev.on).val
    /\ (cur.op = "Sentinel.value" /\ prev.op = "Sentinel.map") =>
          cur.out.val = Sentinel_fold(Thunk(cur.x), prev.f, prev.on).val

\* C9, amended: in the symbol-keyed encoding value(map(f, o), D) is
\* fold({none: () => D, some: f}, o) for all o, f and D.  In the
\* absence-sentinel encoding the two agree when o is a None or f(v) is
\* neither null nor undefined; when o is Some(v) and f(v) is null or
\* undefined, value(map(f, o), D) is D while the fold is f(v).
C9_FoldConsistentUnlessAbsent ==
    /\ (cur.op = "Option.value" /\ prev.op = "Option.map") =>
          cur.out.val = Option_fold(Thunk(cur.x), prev.f, prev.on).val
    /\ (cur.op = "Sentinel.value" /\ prev.op = "Sentinel.map") =>
          IF Holds(Sentinel_is_some(prev.on)) /\ IsAbsent(prev.f[<<prev.on>>])
          THEN /\ cur.out = Ret(cur.x)
               /\ Sentinel_fold(Thunk(cur.x), prev.f, prev.on).val = prev.f[<<prev.on>>]
          ELSE cur.out.val = Sentinel_fold(Thunk(cur.x), prev.f, prev.on).val

\* absence-sentinel: f sent the payload 0 to null, and the default is 1
C9_Witness ==
    /\ cur.op = "Sentinel.value" /\ prev.op = "Sentinel.map"
    /\ prev.on = Num(0) /\ prev.f[<<prev.on>>] = Null /\ cur.x = Num(1)

\* C10: Result.map calls f once, on the payload of an Ok, and returns an Err
\* as it is without calling f; Result.map_err calls f once, on the payload
\* of an Err, and returns an Ok as it is without calling f.
C10_MapFrame ==
    /\ (cur.op = "Result.map") =>
          IF Holds(Result_is_err(cur.on))
          THEN cur.out = Ret(cur.on)
          ELSE /\ cur.out.calls = <<[fn |-> "f", args |-> <<Result_get_ok(cur.on).val>>]>>
               /\ Reg = Ok(cur.f[<<Result_get_ok(cur.on).val>>])
    /\ (cur.op = "Result.map_err") =>
          IF Holds(Result_is_ok(cur.on))
          THEN cur.out = Ret(cur.on)
          ELSE /\ cur.out.calls = <<[fn |-> "f", args |-> <<Result_get_err(cur.on).val>>]>>
               /\ Reg = Err(cur.f[<<Result_get_err(cur.on).val>>])

\* map was called on an Err
C10_Witness ==
    cur.op = "Result.map" /\ Holds(Result_is_err(cur.on)) /\ cur.out.calls = <<>>

\* C11: join(oo) is Some(v) when oo is Some(Some(v)), and a None when oo is
\* a None or Some(None), in the symbol-keyed and in the cast-based encoding.
C11_JoinFlattens ==
    /\ (cur.op = "Option.join") =>
          /\ Returned(cur.out)
          /\ IF /\ Holds(Option_is_some(cur.on))
                /\ Holds(Option_is_some(Option_get(cur.on).val))
             THEN /\ Holds(Option_is_some(Reg))
                  /\ Option_get(Reg) = Option_get(Option_get(cur.on).val)
             ELSE Holds(Option_is_none(Reg))
    /\ (cur.op = "Cast.join" /\ prev.op = "Cast.none") =>
          Holds(Cast_is_none(Reg))
    /\ (cur.op = "Cast.join" /\ prev.op = "Cast.some" /\ prev.y # NoArg) =>
          Holds(Cast_is_some(Reg)) /\ Cast_get(Reg) = Ret(prev.y)

\* C12: Result.join never throws and removes one level: join(ok(r)) is the
\* inner result r, be it ok(v) or err(e), and join(err(e)) is err(e) with the
\* same e; the outcome is a Result.
C12_ResultJoinFlattens ==
    /\ (cur.op = "Result.join") =>
          /\ Returned(cur.out)
          /\ Result_is_result(Reg)
          /\ IF Holds(Result_is_ok(cur.on))
             THEN /\ Reg = Result_get_ok(cur.on).val
                  /\ Depth(Reg) = Depth(cur.on) - 1
             ELSE /\ Holds(Result_is_err(Reg))
                  /\ Result_get_err(Reg) = Result_get_err(cur.on)
    /\ (cur.op = "Result.join" /\ prev.op = "Result.ok") => Reg = prev.x
    /\ (cur.op = "Result.join" /\ prev.op = "Result.err") =>
          Holds(Result_is_err(Reg)) /\ Result_get_err(Reg) = Ret(prev.x)

\* join(ok(err(e))) was called
C12_Witness ==
    /\ cur.op = "Result.join" /\ prev.op = "Result.ok"
    /\ Result_is_result(prev.x) /\ Holds(Result_is_err(prev.x))
    /\ Holds(Result_is_err(Reg))

\* cmp is a total order on D
TotalOrder(cmp, D) ==
    /\ \A a \in D : cmp[<<a, a>>] = Equal
    /\ \A a, b \in D :
          /\ cmp[<<a, b>>] = Less <=> cmp[<<b, a>>] = Greater
          /\ cmp[<<a, b>>] = Equal => a = b
    /\ \A a, b, c \in D :
          (cmp[<<a, b>>] # Greater /\ cmp[<<b, c>>] # Greater) => cmp[<<a, c>>] # Greater

OptionOrder(cmp, a, b) == Option_compare(cmp, a, b).val

ResultOrder(ok, err, a, b) == Result_compare(ok, err, a, b).val

\* C13: with total-order comparators, Option.compare and Result.compare are
\* total orders: x against x is Equal, a against b is Less exactly when b
\* against a is Greater, and the order is transitive.  none() is Equal to
\* none() and Less than every Some, two Somes are compared by cmp; every Ok is
\* Less than every Err, two Oks are compared by ok and two Errs by err.
C13_CompareTotalOrder ==
    /\ (cur.op = "Option.compare" /\ TotalOrder(cur.f, Payload)) =>
          /\ Returned(cur.out) /\ Reg \in {Less, Equal, Greater}
          /\ OptionOrder(cur.f, cur.on, cur.on) = Equal
          /\ Reg = Less <=> OptionOrder(cur.f, cur.x, cur.on) = Greater
          /\ Reg = Greater <=> OptionOrder(cur.f, cur.x, cur.on) = Less
          /\ Reg = Equal => SameOption(cur.on, cur.x)
          /\ \A o2 \in OptionInputs :
                (Reg # Greater /\ OptionOrder(cur.f, cur.x, o2) # Greater)
                    => OptionOrder(cur.f, cur.on, o2) # Greater
          /\ (Holds(Option_is_none(cur.on)) /\ Holds(Option_is_none(cur.x)))
                => Reg = Equal
          /\ (Holds(Option_is_none(cur.on)) /\ Holds(Option_is_some(cur.x)))
                => Reg = Less
          /\ (Holds(Option_is_some(cur.on)) /\ Holds(Option_is_some(cur.x)))
                => Reg = cur.f[<<Option_get(cur.on).val, Option_get(cur.x).val>>]
    /\ (cur.op = "Result.compare" /\ TotalOrder(cur.f, Payload)
          /\ TotalOrder(cur.g, ErrPayload)) =>
          /\ Returned(cur.out) /\ Reg \in {Less, Equal, Greater}
          /\ ResultOrder(cur.f, cur.g, cur.on, cur.on) = Equal
          /\ Reg = Less <=> ResultOrder(cur.f, cur.g, cur.x, cur.on) = Greater
          /\ Reg = Greater <=> ResultOrder(cur.f, cur.g, cur.x, cur.on) = Less
          /\ Reg = Equal => SameResult(cur.on, cur.x)
          /\ \A r2 \in ResultInputs :
                (Reg # Greater /\ ResultOrder(cur.f, cur.g, cur.x, r2) # Greater)
                    => ResultOrder(cur.f, cur.g, cur.on, r2) # Greater
          /\ (Holds(Result_is_ok(cur.on)) /\ Holds(Result_is_err(cur.x)))
                => Reg = Less
          /\ (Holds(Result_is_ok(cur.on)) /\ Holds(Result_is_ok(cur.x)))
                => Reg = cur.f[<<Result_get_ok(cur.on).val, Result_get_ok(cur.x).val>>]
          /\ (Holds(Result_is_err(cur.on)) /\ Holds(Result_is_err(cur.x)))
                => Reg = cur.g[<<Result_get_err(cur.on).val, Result_get_err(cur.x).val>>]

\* none() was compared with none(), under a total order
C13_Witness ==
    /\ cur.op = "Option.compare" /\ TotalOrder(cur.f, Payload)
    /\ Holds(Option_is_none(cur.on)) /\ Holds(Option_is_none(cur.x))
    /\ Reg = Equal

\* C14: Option.equal is true exactly when both options are None, or both
\* are Some and eq is true of the two payloads.  Result.equal is false, with
\* no comparator called, when the variants differ; on two Oks it is what ok
\* returns on the payloads and err is not called; on two Errs it is what err
\* returns and ok is not called.
C14_EqualSemantics ==
    /\ (cur.op = "Option.equal") =>
          /\ Returned(cur.out)
          /\ Holds(cur.out) <=>
                \/ Holds(Option_is_none(cur.on)) /\ Holds(Option_is_none(cur.x))
                \/ /\ Holds(Option_is_some(cur.on)) /\ Holds(Option_is_some(cur.x))
                   /\ cur.f[<<Option_get(cur.on).val, Option_get(cur.x).val>>] = Bool(TRUE)
    /\ (cur.op = "Result.equal") =>
          IF Holds(Result_is_ok(cur.on)) # Holds(Result_is_ok(cur.x))
          THEN cur.out = Ret(Bool(FALSE))
          ELSE IF Holds(Result_is_ok(cur.on))
          THEN LET as == <<Result_get_ok(cur.on).val, Result_get_ok(cur.x).val>>
               IN  /\ Reg = cur.f[as]
                   /\ cur.out.calls = <<[fn |-> "ok", args |-> as]>>
          ELSE LET as == <<Result_get_err(cur.on).val, Result_get_err(cur.x).val>>
               IN  /\ Reg = cur.g[as]
                   /\ cur.out.calls = <<[fn |-> "err", args |-> as]>>

\* an Ok was compared with an Err
C14_Witness ==
    /\ cur.op = "Result.equal"
    /\ Holds(Result_is_ok(cur.on)) /\ Holds(Result_is_err(cur.x))
    /\ cur.out = Ret(Bool(FALSE))

\* the result the i-th bind of the chain was called on: r, then each f's
ChainInput(i) == IF i = 1 THEN chain[1].on ELSE chain[i - 1].out.val

\* r and the results of the binds before the i-th are all Ok
AllOkBefore(i) == \A j \in 1..i : Holds(Result_is_ok(ChainInput(j)))

\* the first Err the i-th bind of the chain has behind it
FirstErr(i) ==
    ChainInput(CHOOSE j \in 1..i :
        /\ Holds(Result_is_err(ChainInput(j)))
        /\ \A m \in 1..(j - 1) : Holds(Result_is_ok(ChainInput(m))))

\* C15: in a chain bind(...bind(bind(r, f1), f2)..., fn), fi is called, once
\* and on the payload before it, exactly when r and the results of f1..fi-1
\* are all Ok; from the first Err on no function is called and every bind
\* returns that Err, with its error value, so the chain's result is the first
\* Err, or fn's result when there is none.
C15_BindChainShortCircuits ==
    \A i \in 1..Len(chain) :
        /\ Returned(chain[i].out)
        /\ IF AllOkBefore(i)
           THEN LET as == <<Result_get_ok(ChainInput(i)).val>>
                IN  /\ chain[i].out.calls = <<[fn |-> "f", args |-> as]>>
                    /\ chain[i].out.val = chain[i].f[as]
           ELSE /\ chain[i].out.calls = <<>>
                /\ chain[i].out.val = FirstErr(i)
                /\ Result_get_err(chain[i].out.val) = Result_get_err(FirstErr(i))
        /\ i = Len(chain) => (cur = chain[i] /\ Reg = chain[i].out.val)

\* r was Ok, f1 yielded an Err, f2 and f3 were not called
C15_Witness ==
    /\ Len(chain) = 3
    /\ Holds(Result_is_ok(chain[1].on))
    /\ Holds(Result_is_err(chain[1].out.val))
    /\ chain[2].out.calls = <<>> /\ chain[3].out.calls = <<>>
    /\ Reg = chain[1].out.val

\* an option of the symbol-keyed encoding that a builder returned
BuiltOption ==
    cur.op \in OptionBuilders /\ HasReg /\ Holds(Option_is_some(Reg))

\* C16 as stated: a Some built by some, none, from, map, bind and join never
\* holds null or undefined.
C16_SomeNeverAbsent ==
    BuiltOption => ~IsAbsent(Option_get(Reg).val)

\* C16, amended: only from keeps absent payloads out of a Some.  A Some
\* returned by from never holds null or undefined; some(v) holds v, absent
\* or not; map(f, Some(v)) holds f(v), absent or not; bind returns the option
\* its callback returned and join the option nested in its argument, as they
\* are.
C16_SomeAbsentOnlyAsGiven ==
    LET p == Option_get(Reg).val
        v == Option_get(cur.on).val
    IN  /\ (cur.op = "Option.from" /\ Holds(Option_is_some(Reg))) =>
              (~IsAbsent(p) /\ p = cur.x)
        /\ (cur.op = "Option.some") =>
              (Holds(Option_is_some(Reg)) /\ p = cur.x)
        /\ (cur.op = "Option.map" /\ Holds(Option_is_some(cur.on))) =>
              (Holds(Option_is_some(Reg)) /\ p = cur.f[<<v>>])
        /\ (cur.op = "Option.bind" /\ Holds(Option_is_some(cur.on))) =>
              Reg = cur.f[<<v>>]
        /\ (cur.op = "Option.join" /\ Holds(Option_is_some(cur.on))
              /\ Holds(Option_is_some(v))) => Reg = v

\* join returned a Some that holds undefined
C16_Witness ==
    /\ BuiltOption /\ cur.op = "Option.join"
    /\ Option_get(Reg).val = Undefined

====
